---- MODULE Spec2Model ----
(***************************************************************************)
(* A model of tgagor/action-crosspost.                                     *)
(*                                                                         *)
(*   scripts/post_urls.py  the dispatch engine: per URL, crosspost through *)
(*                         the external backend, then static-target and    *)
(*                         dynamic-scan webmentions (specification Spec).    *)
(*   scripts/get_urls.py   the harvester: time filter, deduplication,      *)
(*                         exclude/include filters (SpecHarvest).          *)
(***************************************************************************)
EXTENDS Integers, Sequences, FiniteSets, TLC

VARIABLES
    \* ---- post_urls.py ----
    args,                    \* argparse namespace of post_urls.py
    env,                     \* os.environ as post_urls.py reads it
    pc,                      \* position of main(): start, crosspost, static, dynamic, link, exit
    urls,                    \* main(): urls after splitlines() and [:limit]
    social_networks_enabled, \* main(): len(test_cmd) > 2
    webmentions_enabled,     \* main(): bool(hosts) or scan_content_enabled
    i,                       \* index in urls of the URL of `for url in urls`
    j,                       \* index of the target of the running target loop
    links,                   \* sorted(links) of send_webmentions_to_external_links
    cache,                   \* lru_cache of fetch_post: URL -> parsed page
    requests,                \* URLs fetch_post has sent a requests.get for
    last_requests,           \* the requests.get calls of the last step, in order
    runs,                    \* commands handed to subprocess.run
    posts,                   \* (source, target) pairs handed to requests.post
    last_post,               \* the last requests.post call and what was reported of it
    simulated,               \* the "Would post"/"Would send" lines of a dry run
    failed,                  \* URLs of the "Failed to post" lines of main()
    event,                   \* what the last step of main() did
    exit_code,               \* process exit status, meaningful when pc = "exit"
    \* ---- get_urls.py ----
    hpc,                     \* position of get_urls.main(): idle, extract, patterns, filter, done
    since_ago,               \* main(): parse_since(args.since, args.since_unit)
    results,                 \* extract_urls(): the (lastmod, url) list
    last_page,               \* extract_urls(): the page of the last pass of the loop
    n_pages,                 \* pages tree.all_pages() has yielded
    extracted,               \* the list extract_urls() returned
    candidates,              \* main(): set(extract_urls(...)), its elements listed
    freshness,               \* history: the instants of results as sorted, one per URL returned
    several_dates,           \* history: extract_urls() kept one URL with two lastmods
    exclude_patterns,        \* main(): stripped non-blank lines of --exclude-urls
    filter_patterns,         \* main(): stripped non-blank lines of --filter-urls
    k,                       \* index in sorted(candidates) of the URL of the loop
    tested,                  \* URLs should_filter was called with
    processed,               \* main(): processed
    outputs,                 \* what gha_output wrote: latest-urls, processed-urls
    \* ---- post_urls.py: build_crosspost_cmd, the {tags} placeholder ----
    tpc,                     \* idle, fetched (extract_og_tags returned), done
    template,                \* the message template, as its pieces
    og_tags,                 \* what extract_og_tags(url) returned
    hashtags,                \* build_crosspost_cmd: hashtags
    tagged_message           \* build_crosspost_cmd: message after re.sub of {tags}

dvars == <<args, env, pc, urls, social_networks_enabled, webmentions_enabled,
           i, j, links, cache, requests, last_requests, runs, posts, last_post, simulated,
           failed, event, exit_code>>
hvars == <<hpc, since_ago, results, last_page, n_pages, extracted, candidates,
           freshness, several_dates,
           exclude_patterns, filter_patterns, k, tested, processed, outputs>>
tvars == <<tpc, template, og_tags, hashtags, tagged_message>>
vars == <<dvars, hvars, tvars>>

(***************************************************************************)
(* Bounds of the model.                                                    *)
(***************************************************************************)
MaxUrls == 2        \* longest --urls list
MaxHosts == 2       \* longest WEBMENTION_TARGET_HOSTS list
MaxPages == 3       \* most pages a sitemap tree yields
MaxPatterns == 2    \* most lines of --exclude-urls and of --filter-urls
MaxDate == 2        \* calendar days run 0..MaxDate

(***************************************************************************)
(* The universe of inputs.                                                 *)
(***************************************************************************)
UrlNames == <<"https://s/p1", "https://s/p2", "https://s/p3">>
TargetNames == <<"https://t1", "https://t2", "https://t3">>
Urls == {UrlNames[n] : n \in 1..MaxUrls}
Targets == {TargetNames[n] : n \in 1..MaxHosts}
ExampleUrl == "https://example.com"

\* Code-point order of the target URLs (what sorted() compares).
TargetRank(t) == CHOOSE n \in 1..MaxHosts : TargetNames[n] = t

SeqsUpTo(S, n) == UNION {[1..m -> S] : m \in 0..n}

\* --urls lists without repetition (the harvester's lists have none); a
\* non-empty list starts with p1.
UrlLists == {l \in SeqsUpTo(Urls, MaxUrls) :
                /\ \A a, b \in 1..Len(l) : a # b => l[a] # l[b]
                /\ Len(l) > 0 => l[1] = UrlNames[1]}

\* Host lists without repetition; a non-empty list starts with t1.
HostLists == {h \in SeqsUpTo(Targets, MaxHosts) :
                 /\ \A a, b \in 1..Len(h) : a # b => h[a] # h[b]
                 /\ Len(h) > 0 => h[1] = TargetNames[1]}

\* WEBMENTION_ENDPOINT: unset, or an endpoint such as Brid.gy's.
OverrideEndpoint == "https://brid.gy/publish/webmention"
EndpointInputs == {"", OverrideEndpoint}

\* The credential variables set in the environment of a run: none, one half
\* of a two-field set, a complete set.
CredentialEnvs ==
    {{}, {"MASTODON_HOST"}, {"MASTODON_HOST", "MASTODON_ACCESS_TOKEN"}}

\* Message templates, by the placeholders they hold besides {url}.
Messages == {{}, {"description", "tags"}}

\* (--failure-strategy, FAILURE_STRATEGY): the selector given both ways, and
\* the value "fail" that only the environment can carry (argparse refuses it).
StrategyInputs == {<<"ignore", "ignore">>, <<"error", "error">>, <<"ignore", "fail">>}

\* (--limit, LIMIT)
LimitInputs == {<<0, 0>>, <<1, 1>>, <<1, 0>>}

\* Hrefs found inside an e-content region: external pages, a relative link,
\* a link below the source URL itself.
RelHref == "/about"
SelfHref == "https://s/p1#self"
NoPage == [e_content |-> FALSE, hrefs |-> {}, webmention |-> FALSE]

\* The site the runs see: p1 has an e-content region with external links,
\* a relative link and a link to itself, p2 has no e-content region; t1
\* advertises a webmention endpoint, t2 does not.
Page(u) ==
    CASE u = "https://s/p1" ->
             [e_content |-> TRUE,
              hrefs |-> Targets \cup {RelHref, SelfHref},
              webmention |-> FALSE]
      [] u = "https://t1" ->
             [e_content |-> FALSE, hrefs |-> {}, webmention |-> TRUE]
      [] OTHER -> NoPage

\* Result of requests.get + raise_for_status: an exception or the page.
FetchOutcomes(u) ==
    {[raised |-> TRUE, page |-> NoPage], [raised |-> FALSE, page |-> Page(u)]}

\* Result of requests.post: an exception of the transport, or a status code.
StatusCodes == {200, 204, 500}
PostOutcomes ==
    {[raised |-> TRUE, status_code |-> 0]}
    \cup {[raised |-> FALSE, status_code |-> s] : s \in StatusCodes}

\* Result of subprocess.run(cmd, check=True): exit 0, CalledProcessError
\* (non-zero exit), or OSError (the command cannot be started).
RunOutcomes == {"ok", "CalledProcessError", "OSError"}

(***************************************************************************)
(* post_urls.py: helpers.                                                  *)
(***************************************************************************)

\* fetch_post(url) on net = [cache, requests], with outcome o of the request
\* if one is made. lru_cache stores a result only when the call returns.
\* net.log lists the requests of the running step: the URL, and whether a
\* request for it had been sent before.
fetch_post(net, u, o) ==
    IF u \in DOMAIN net.cache
    THEN [ok |-> TRUE, cache |-> net.cache, requests |-> net.requests, log |-> net.log]
    ELSE [ok |-> ~o.raised,
          cache |-> IF o.raised THEN net.cache ELSE (u :> o.page) @@ net.cache,
          requests |-> net.requests \cup {u},
          log |-> Append(net.log, [url |-> u, again |-> u \in net.requests])]

\* The cache and the request log a call leaves behind.
After(f) == [cache |-> f.cache, requests |-> f.requests, log |-> f.log]

message_needs_description(message) == "description" \in message

message_needs_tags(message) == "tags" \in message

\* The channel flags build_crosspost_cmd appends, in its order.
Has(e, v) == v \in e
ChannelFlags(e) ==
    (IF (Has(e, "TWITTER_ACCESS_TOKEN_KEY") /\ Has(e, "TWITTER_ACCESS_TOKEN_SECRET"))
        \/ (Has(e, "TWITTER_API_CONSUMER_KEY") /\ Has(e, "TWITTER_API_CONSUMER_SECRET"))
     THEN <<"--twitter">> ELSE <<>>)
    \o (IF Has(e, "MASTODON_HOST") /\ Has(e, "MASTODON_ACCESS_TOKEN")
        THEN <<"--mastodon">> ELSE <<>>)
    \o (IF Has(e, "BLUESKY_HOST") /\ Has(e, "BLUESKY_IDENTIFIER")
           /\ Has(e, "BLUESKY_PASSWORD")
        THEN <<"--bluesky">> ELSE <<>>)
    \o (IF Has(e, "LINKEDIN_ACCESS_TOKEN") THEN <<"--linkedin">> ELSE <<>>)
    \o (IF Has(e, "DISCORD_BOT_TOKEN") /\ Has(e, "DISCORD_CHANNEL_ID")
        THEN <<"--discord">> ELSE <<>>)
    \o (IF Has(e, "DISCORD_WEBHOOK_URL") THEN <<"--discord-webhook">> ELSE <<>>)
    \o (IF Has(e, "DEVTO_API_KEY") THEN <<"--devto">> ELSE <<>>)
    \o (IF Has(e, "TELEGRAM_BOT_TOKEN") /\ Has(e, "TELEGRAM_CHAT_ID")
        THEN <<"--telegram">> ELSE <<>>)
    \o (IF Has(e, "SLACK_TOKEN") /\ Has(e, "SLACK_CHANNEL")
        THEN <<"--slack">> ELSE <<>>)

\* build_crosspost_cmd(message, url): the command and the state of the fetch
\* cache after the metadata fetches (o1: extract_description's request,
\* o2: extract_og_tags' request). The command is ["npx", "crosspost"], the
\* flags, and the formatted message as its last element.
build_crosspost_cmd(message, url, e, net, o1, o2) ==
    LET f1 == IF message_needs_description(message)
              THEN fetch_post(net, url, o1)
              ELSE [ok |-> FALSE] @@ net
        f2 == IF message_needs_tags(message)
              THEN fetch_post(After(f1), url, o2)
              ELSE [ok |-> FALSE] @@ After(f1)
    IN  [argv |-> <<"npx", "crosspost">> \o ChannelFlags(e),
         formatted_message |-> [url |-> url, description |-> f1.ok, tags |-> f2.ok],
         net |-> After(f2)]

\* len(cmd): argv and the formatted message.
CmdLen(cmd) == Len(cmd.argv) + 1

\* The command as subprocess.run receives it, as far as `runs` records it.
Cmd(b) == [argv |-> b.argv, url |-> b.formatted_message.url]

\* main(): social_networks_enabled = len(test_cmd) > 2
SocialNetworksEnabled(test_cmd) == CmdLen(test_cmd) > 2

\* main(): urls = urls[:limit] when limit is truthy
Truncate(list, limit) ==
    IF limit # 0 /\ limit < Len(list) THEN SubSeq(list, 1, limit) ELSE list


\* href.startswith("http") and not href.startswith(source_url)
IsExternal(href, source_url) ==
    /\ href \in Targets \cup Urls
    /\ href # source_url

\* sorted(links), for a set of target URLs
RECURSIVE Sorted(_)
Sorted(S) ==
    IF S = {} THEN <<>>
    ELSE LET m == CHOOSE x \in S : \A y \in S : TargetRank(x) <= TargetRank(y)
         IN  <<m>> \o Sorted(S \ {m})

\* requests.compat.urljoin(target, href) of the target's rel=webmention link
DiscoveredEndpoint(target) ==
    <<"https://t1/webmention", "https://t2/webmention",
      "https://t3/webmention">>[TargetRank(target)]

\* post_webmention_to_endpoint(source, endpoint, target) with outcome p of
\* requests.post: the call raises, or returns (success, message).
post_webmention_to_endpoint(source, endpoint, target, p) ==
    [raised |-> p.raised,
     success |-> ~p.raised /\ p.status_code \in {200, 201, 202},
     post |-> [source |-> source, endpoint |-> endpoint, target |-> target,
               raised |-> p.raised, status_code |-> p.status_code,
               success |-> ~p.raised /\ p.status_code \in {200, 201, 202}]]

NoPost == [source |-> "", endpoint |-> "", target |-> "", raised |-> FALSE,
           status_code |-> 0, success |-> FALSE]

\* send_webmention(source, target): discovery through fetch_post, then the
\* POST; every exception is caught and becomes (False, message).
send_webmention(source, target, net, ot, p) ==
    LET f == fetch_post(net, target, ot)
        r == post_webmention_to_endpoint(source, DiscoveredEndpoint(target), target, p)
    IN  IF ~f.ok
        THEN [success |-> FALSE, net |-> After(f),
              posts |-> {}, event |-> "wm_discovery_error"]
        ELSE IF ~f.cache[target].webmention
        THEN [success |-> FALSE, net |-> After(f),
              posts |-> {}, event |-> "wm_no_endpoint"]
        ELSE [success |-> r.success, net |-> After(f),
              posts |-> {r.post},
              event |-> IF r.raised THEN "wm_transport_error"
                        ELSE IF r.success THEN "wm_sent" ELSE "wm_failed"]

\* notify_webmention_hosts without its dry_run test (lines 71-73 left out).
notify_webmention_host_always_sending(source_url, target, endpoint, dry_run, net, os, ot, p) ==
    LET f == fetch_post(net, source_url, os)
        n == After(f)
        r == post_webmention_to_endpoint(source_url, endpoint, target, p)
        s == send_webmention(source_url, target, n, ot, p)
    IN  IF ~f.ok
        THEN [raised |-> FALSE, net |-> n,
              posts |-> {}, simulated |-> {}, event |-> "wm_source_unfetchable"]
        ELSE IF endpoint # ""
        THEN [raised |-> r.raised, net |-> n,
              posts |-> {r.post}, simulated |-> {},
              event |-> IF r.raised THEN "wm_transport_error"
                        ELSE IF r.success THEN "wm_sent" ELSE "wm_failed"]
        ELSE [raised |-> FALSE, net |-> s.net,
              posts |-> s.posts, simulated |-> {}, event |-> s.event]

\* One iteration of the loop of notify_webmention_hosts(source_url, targets,
\* endpoint, dry_run). raised: an exception leaves the function.
notify_webmention_host(source_url, target, endpoint, dry_run, net, os, ot, p) ==
    LET f == fetch_post(net, source_url, os)
        n == After(f)
        r == post_webmention_to_endpoint(source_url, endpoint, target, p)
        s == send_webmention(source_url, target, n, ot, p)
    IN  IF dry_run
        THEN [raised |-> FALSE, net |-> net,
              posts |-> {}, simulated |-> {[kind |-> "webmention", source |-> source_url,
                                            target |-> target]},
              event |-> "would_send"]
        ELSE IF ~f.ok
        THEN [raised |-> FALSE, net |-> n,
              posts |-> {}, simulated |-> {}, event |-> "wm_source_unfetchable"]
        ELSE IF endpoint # ""
        THEN [raised |-> r.raised, net |-> n,
              posts |-> {r.post}, simulated |-> {},
              event |-> IF r.raised THEN "wm_transport_error"
                        ELSE IF r.success THEN "wm_sent" ELSE "wm_failed"]
        ELSE [raised |-> FALSE, net |-> s.net,
              posts |-> s.posts, simulated |-> {}, event |-> s.event]

(***************************************************************************)
(* post_urls.py: main().                                                   *)
(***************************************************************************)
DispatchInit ==
    /\ \E l \in UrlLists, lim \in LimitInputs, st \in StrategyInputs,
          d \in BOOLEAN, m \in Messages :
          /\ args = [urls |-> l, limit |-> lim[1], failure_strategy |-> st[1],
                     dry_run |-> d, message |-> m]
          /\ \E c \in CredentialEnvs, h \in HostLists, ep \in EndpointInputs,
                sc \in BOOLEAN :
                /\ Len(h) = 0 => ep = ""
                /\ env = [LIMIT |-> lim[2], FAILURE_STRATEGY |-> st[2], credentials |-> c,
                       WEBMENTION_ENDPOINT |-> ep, WEBMENTION_TARGET_HOSTS |-> h,
                       WEBMENTION_SCAN_CONTENT |-> sc]
    /\ pc = "start"
    /\ urls = <<>>
    /\ social_networks_enabled = FALSE
    /\ webmentions_enabled = FALSE
    /\ i = 0
    /\ j = 0
    /\ links = <<>>
    /\ cache = <<>>
    /\ requests = {}
    /\ last_requests = <<>>
    /\ runs = {}
    /\ posts = {}
    /\ last_post = NoPost
    /\ simulated = {}
    /\ failed = {}
    /\ event = "init"
    /\ exit_code = 0

Net == [cache |-> cache, requests |-> requests, log |-> <<>>]

\* The step leaves the fetch cache and the request log as n has them.
Fetched(n) ==
    /\ cache' = n.cache
    /\ requests' = n.requests
    /\ last_requests' = n.log

\* The outcomes to draw for a request to u: none when no request is made.
Drawn(u, made) ==
    IF made /\ u \notin DOMAIN cache THEN FetchOutcomes(u)
    ELSE {[raised |-> TRUE, page |-> NoPage]}

Pair(post) == [source |-> post.source, target |-> post.target]

\* sys.exit(code), or an exception nobody catches (Python exits with 1).
Exit(code) ==
    /\ pc' = "exit"
    /\ exit_code' = code

\* The end of one pass of `for url in urls`.
NextUrl ==
    IF i < Len(urls)
    THEN pc' = "crosspost" /\ i' = i + 1 /\ UNCHANGED exit_code
    ELSE Exit(0) /\ UNCHANGED i

\* main(), lines 236-265: configuration, the probe command, the guard.
Configure ==
    /\ pc = "start"
    /\ \E o1 \in Drawn(ExampleUrl, message_needs_description(args.message)) :
       \E o2 \in Drawn(ExampleUrl, message_needs_tags(args.message) /\ o1.raised) :
          LET limit == env.LIMIT
              test_cmd == build_crosspost_cmd(args.message, ExampleUrl,
                                              env.credentials, Net, o1, o2)
              sne == SocialNetworksEnabled(test_cmd)
              wme == Len(env.WEBMENTION_TARGET_HOSTS) > 0 \/ env.WEBMENTION_SCAN_CONTENT
          IN  /\ urls' = Truncate(args.urls, limit)
              /\ social_networks_enabled' = sne
              /\ webmentions_enabled' = wme
              /\ Fetched(test_cmd.net)
              /\ IF ~sne /\ ~wme
                 THEN Exit(1) /\ event' = "no_channels" /\ UNCHANGED i
                 ELSE /\ event' = "configured"
                      /\ IF Len(urls') > 0
                         THEN pc' = "crosspost" /\ i' = 1 /\ UNCHANGED exit_code
                         ELSE Exit(0) /\ UNCHANGED i
    /\ UNCHANGED <<args, env, failed, j, links, runs, posts, last_post, simulated>>
    /\ UNCHANGED hvars
    /\ UNCHANGED tvars

\* main(), lines 268-283: the crosspost stage of urls[i].
Crosspost ==
    /\ pc = "crosspost"
    /\ IF ~social_networks_enabled
       THEN /\ pc' = "static" /\ j' = 1 /\ event' = "skip_crosspost"
            /\ Fetched(Net) /\ UNCHANGED <<runs, simulated, failed, exit_code>>
       ELSE \E o1 \in Drawn(urls[i], message_needs_description(args.message)) :
            \E o2 \in Drawn(urls[i], message_needs_tags(args.message) /\ o1.raised) :
            \E r \in IF args.dry_run THEN {"ok"} ELSE RunOutcomes :
               LET cmd == build_crosspost_cmd(args.message, urls[i],
                                              env.credentials, Net, o1, o2)
                   failure_strategy == env.FAILURE_STRATEGY
               IN  /\ Fetched(cmd.net)
                   /\ IF args.dry_run
                      THEN /\ simulated' = simulated \cup
                                 {[kind |-> "crosspost", source |-> urls[i], target |-> ""]}
                           /\ event' = "would_post"
                           /\ pc' = "static" /\ j' = 1
                           /\ UNCHANGED <<runs, failed, exit_code>>
                      ELSE /\ runs' = runs \cup {Cmd(cmd)}
                           /\ UNCHANGED simulated
                           /\ CASE r = "ok" ->
                                     /\ event' = "posted"
                                     /\ UNCHANGED failed
                                     /\ pc' = "static" /\ j' = 1
                                     /\ UNCHANGED exit_code
                                [] r = "CalledProcessError" ->
                                     /\ event' = "crosspost_failed"
                                     /\ failed' = failed \cup {urls[i]}
                                     /\ IF failure_strategy = "fail"
                                        THEN Exit(1) /\ UNCHANGED j
                                        ELSE pc' = "static" /\ j' = 1
                                             /\ UNCHANGED exit_code
                                [] r = "OSError" ->
                                     /\ event' = "crosspost_not_started"
                                     /\ UNCHANGED failed
                                     /\ Exit(1) /\ UNCHANGED j
    /\ UNCHANGED <<args, env, urls, social_networks_enabled, webmentions_enabled,
                   i, links, posts, last_post>>
    /\ UNCHANGED hvars
    /\ UNCHANGED tvars

\* main(), lines 286-307 with notify_webmention_hosts: one target of the
\* static list for urls[i].
WebmentionStatic ==
    /\ pc = "static"
    /\ LET hosts == env.WEBMENTION_TARGET_HOSTS
           endpoint == env.WEBMENTION_ENDPOINT
       IN
       IF ~webmentions_enabled \/ Len(hosts) = 0
       THEN /\ pc' = "dynamic" /\ event' = "skip_static"
            /\ Fetched(Net) /\ UNCHANGED <<j, posts, last_post, simulated, exit_code>>
       ELSE \E os \in Drawn(urls[i], TRUE) :
            \E ot \in Drawn(hosts[j], endpoint = "") :
            \E p \in PostOutcomes :
               LET n == notify_webmention_host(urls[i], hosts[j], endpoint,
                                               args.dry_run, Net, os, ot, p)
               IN  /\ Fetched(n.net)
                   /\ posts' = posts \cup {Pair(q) : q \in n.posts}
                   /\ last_post' = IF n.posts = {} THEN last_post
                                   ELSE CHOOSE q \in n.posts : TRUE
                   /\ simulated' = simulated \cup n.simulated
                   /\ event' = n.event
                   /\ IF n.raised
                      THEN Exit(1) /\ UNCHANGED j
                      ELSE IF j < Len(hosts)
                      THEN j' = j + 1 /\ UNCHANGED <<pc, exit_code>>
                      ELSE pc' = "dynamic" /\ UNCHANGED <<j, exit_code>>
    /\ UNCHANGED <<args, env, failed, urls, social_networks_enabled, webmentions_enabled,
                   i, links, runs>>
    /\ UNCHANGED hvars
    /\ UNCHANGED tvars

\* main(), lines 297-298 and 309-310 with send_webmentions_to_external_links,
\* lines 94-111: the scan of urls[i] for external links.
ScanContent ==
    /\ pc = "dynamic"
    /\ IF ~(webmentions_enabled /\ env.WEBMENTION_SCAN_CONTENT)
       THEN /\ event' = "skip_dynamic"
            /\ NextUrl
            /\ Fetched(Net) /\ UNCHANGED <<j, links>>
       ELSE \E os \in Drawn(urls[i], TRUE) :
               LET f == fetch_post(Net, urls[i], os)
                   page == f.cache[urls[i]]
                   found == {h \in page.hrefs : IsExternal(h, urls[i])}
               IN  /\ Fetched(After(f))
                   /\ IF ~f.ok
                      THEN event' = "scan_error" /\ NextUrl /\ UNCHANGED <<j, links>>
                      ELSE IF ~page.e_content
                      THEN event' = "no_e_content" /\ NextUrl /\ UNCHANGED <<j, links>>
                      ELSE IF found = {}
                      THEN event' = "no_links" /\ NextUrl /\ UNCHANGED <<j, links>>
                      ELSE /\ event' = "scanned"
                           /\ links' = Sorted(found)
                           /\ j' = 1
                           /\ pc' = "link"
                           /\ UNCHANGED <<i, exit_code>>
    /\ UNCHANGED <<args, env, failed, urls, social_networks_enabled, webmentions_enabled,
                   runs, posts, last_post, simulated>>
    /\ UNCHANGED hvars
    /\ UNCHANGED tvars

\* send_webmentions_to_external_links, lines 112-123: one external link.
SendLink ==
    /\ pc = "link"
    /\ \E ot \in Drawn(links[j], TRUE) :
       \E p \in PostOutcomes :
          LET s == send_webmention(urls[i], links[j], Net, ot, p)
          IN  IF args.dry_run
              THEN /\ simulated' = simulated \cup
                         {[kind |-> "webmention", source |-> urls[i], target |-> links[j]]}
                   /\ event' = "would_send"
                   /\ Fetched(Net) /\ UNCHANGED <<posts, last_post>>
              ELSE /\ Fetched(s.net)
                   /\ posts' = posts \cup {Pair(q) : q \in s.posts}
                   /\ last_post' = IF s.posts = {} THEN last_post
                                   ELSE CHOOSE q \in s.posts : TRUE
                   /\ event' = s.event
                   /\ UNCHANGED simulated
    /\ IF j < Len(links)
       THEN j' = j + 1 /\ UNCHANGED <<pc, i, exit_code>>
       ELSE NextUrl /\ UNCHANGED j
    /\ UNCHANGED <<args, env, failed, urls, social_networks_enabled, webmentions_enabled,
                   links, runs>>
    /\ UNCHANGED hvars
    /\ UNCHANGED tvars

(***************************************************************************)
(* get_urls.py: the inputs.                                                *)
(***************************************************************************)

\* A datetime: the calendar date and the time of day its own clock shows,
\* and its UTC offset. The day has TicksPerDay ticks; time 0 is 00:00:00.
TicksPerDay == 2
Datetimes == [date : 0..MaxDate, time : 0..(TicksPerDay - 1), utcoffset : {0, 1}]
None == [date |-> 0 - 1, time |-> 0, utcoffset |-> 0]

\* The instant a datetime denotes (what < and > of aware datetimes compare).
Instant(d) == d.date * TicksPerDay + d.time - d.utcoffset

\* parse_since(amount, unit): now(UTC) minus the window, a UTC datetime.
\* The cutoff day is day 1; the pages lie before, on and after it.
parse_since == {d \in Datetimes : d.date = 1 /\ d.utcoffset = 0}

\* URLs and patterns are strings, as sequences of characters.
HUrls == {<<"a">>, <<"a", "/", "b">>, <<"b", "/", "a">>}

\* The publish date of the news extension, where a page carries one.
NewsDate == [date |-> MaxDate, time |-> 1, utcoffset |-> 0]

\* The pages a sitemap tree can yield.
SitemapPages ==
    [url : HUrls, last_modified : Datetimes \cup {None}, publish_date : {None}]
    \cup [url : HUrls, last_modified : {None, [date |-> 0, time |-> 1, utcoffset |-> 0]},
          publish_date : {NewsDate}]

\* Lines of --exclude-urls (globs) and of --filter-urls (substrings).
ExcludeLines == {<<>>, <<"*", "/", "b">>, <<" ", "a", "*">>, <<"?">>}
FilterLines == {<<>>, <<"a", "/">>, <<" ", "b", " ">>}

\* Code points: ' ' < '*' < '/' < '?' < 'a' < 'b'.
CharRank(c) ==
    CASE c = " " -> 32 [] c = "*" -> 42 [] c = "/" -> 47
      [] c = "?" -> 63 [] c = "a" -> 97 [] c = "b" -> 98
      [] c = "!" -> 33 [] c = "#" -> 35 [] c = "-" -> 45 [] c = "1" -> 49
      [] c = "G" -> 71 [] c = "g" -> 103 [] c = "o" -> 111

(***************************************************************************)
(* get_urls.py: helpers.                                                   *)
(***************************************************************************)

\* str < str
RECURSIVE LexLess(_, _)
LexLess(x, y) ==
    IF y = <<>> THEN FALSE
    ELSE IF x = <<>> THEN TRUE
    ELSE IF Head(x) # Head(y) THEN CharRank(Head(x)) < CharRank(Head(y))
    ELSE LexLess(Tail(x), Tail(y))

\* sorted(list) of strings: insertion of each element in turn
RECURSIVE InsertLex(_, _)
InsertLex(sorted, x) ==
    IF sorted = <<>> THEN <<x>>
    ELSE IF LexLess(x, Head(sorted)) THEN <<x>> \o sorted
    ELSE <<Head(sorted)>> \o InsertLex(Tail(sorted), x)

RECURSIVE SortedList(_)
SortedList(list) ==
    IF list = <<>> THEN <<>>
    ELSE InsertLex(SortedList(SubSeq(list, 1, Len(list) - 1)), list[Len(list)])

\* set(list): the elements of a list, each once (in no order of its own)
RECURSIVE AsList(_)
AsList(S) ==
    IF S = {} THEN <<>>
    ELSE LET x == CHOOSE y \in S : TRUE IN <<x>> \o AsList(S \ {x})

SetOf(list) == {list[n] : n \in 1..Len(list)}

\* str.strip()
RECURSIVE LStrip(_)
LStrip(x) == IF x # <<>> /\ Head(x) = " " THEN LStrip(Tail(x)) ELSE x

RECURSIVE RStrip(_)
RStrip(x) ==
    IF x # <<>> /\ x[Len(x)] = " " THEN RStrip(SubSeq(x, 1, Len(x) - 1)) ELSE x

Strip(x) == RStrip(LStrip(x))

\* [p.strip() for p in text.splitlines() if p.strip()]
RECURSIVE StrippedLines(_)
StrippedLines(lines) ==
    IF lines = <<>> THEN <<>>
    ELSE (IF Strip(Head(lines)) # <<>> THEN <<Strip(Head(lines))>> ELSE <<>>)
         \o StrippedLines(Tail(lines))

\* fnmatch.fnmatch(name, pat) for patterns of literals, * and ?: the whole
\* name must match.
RECURSIVE fnmatch(_, _)
fnmatch(name, pat) ==
    IF pat = <<>> THEN name = <<>>
    ELSE IF Head(pat) = "*"
    THEN fnmatch(name, Tail(pat)) \/ (name # <<>> /\ fnmatch(Tail(name), pat))
    ELSE /\ name # <<>>
         /\ (Head(pat) = "?" \/ Head(pat) = Head(name))
         /\ fnmatch(Tail(name), Tail(pat))

\* f in url
Contains(url, f) ==
    \E n \in 1..(Len(url) - Len(f) + 1) : SubSeq(url, n, n + Len(f) - 1) = f

should_exclude(url, patterns) ==
    \E n \in 1..Len(patterns) : fnmatch(url, patterns[n])

\* should_filter without `if not filters: return True` (lines 108-109).
should_filter_any_only(url, filters) ==
    \E n \in 1..Len(filters) : Contains(url, filters[n])

should_filter(url, filters) ==
    IF filters = <<>> THEN TRUE
    ELSE \E n \in 1..Len(filters) : Contains(url, filters[n])

\* extract_urls(), lines 77-81: the freshness of a page, or None.
Lastmod(page) ==
    IF page.last_modified # None THEN page.last_modified
    ELSE IF page.publish_date # None THEN page.publish_date
    ELSE None

\* extract_urls(), lines 85-90: the clock of lastmod shows 00:00:00.000000.
IsMidnight(lastmod) == lastmod.time = 0

\* extract_urls() with >= for > in the comparison of dates (line 91).
IsFresh_from_cutoff_date(lastmod, since) ==
    IF lastmod = None THEN FALSE
    ELSE IF lastmod.time = 0 THEN lastmod.date >= since.date
    ELSE Instant(lastmod) > Instant(since)

\* extract_urls(), lines 83-95: whether the page is appended to results.
IsFresh(lastmod, since) ==
    IF lastmod = None THEN FALSE
    ELSE IF IsMidnight(lastmod) THEN lastmod.date > since.date
    ELSE Instant(lastmod) > Instant(since)

\* results.sort(key=lambda tup: tup[0], reverse=True): a stable sort, the
\* later instant first.
RECURSIVE InsertNewest(_, _)
InsertNewest(sorted, x) ==
    IF sorted = <<>> THEN <<x>>
    ELSE IF Instant(x[1]) > Instant(Head(sorted)[1]) THEN <<x>> \o sorted
    ELSE <<Head(sorted)>> \o InsertNewest(Tail(sorted), x)

RECURSIVE SortNewestFirst(_)
SortNewestFirst(list) ==
    IF list = <<>> THEN <<>>
    ELSE InsertNewest(SortNewestFirst(SubSeq(list, 1, Len(list) - 1)), list[Len(list)])

\* main() without set() around extract_urls(...) (line 125).
Candidates_without_set(list) == list

\* main(), line 125: candidates = set(extract_urls(...)), as the list of
\* its elements.
Candidates(list) == AsList(SetOf(list))

\* main() with the two tests of the loop in the other order.
Verdict_filter_first(url, excludes, filters) ==
    IF ~should_filter(url, filters)
    THEN [tested |-> TRUE, keep |-> FALSE]
    ELSE [tested |-> TRUE, keep |-> ~should_exclude(url, excludes)]

\* main(), lines 132-139: what the loop does with one URL.
Verdict(url, excludes, filters) ==
    IF should_exclude(url, excludes)
    THEN [tested |-> FALSE, keep |-> FALSE]
    ELSE [tested |-> TRUE, keep |-> should_filter(url, filters)]

(***************************************************************************)
(* get_urls.py: main().                                                    *)
(***************************************************************************)
NoPageSeen == [url |-> <<>>, last_modified |-> None, publish_date |-> None]
NoOutputs == [latest_urls |-> <<>>, processed_urls |-> <<>>]

HarvestIdle ==
    /\ hpc = "idle"
    /\ since_ago = None
    /\ results = <<>>
    /\ last_page = NoPageSeen
    /\ n_pages = 0
    /\ extracted = <<>>
    /\ candidates = <<>>
    /\ freshness = <<>>
    /\ several_dates = FALSE
    /\ exclude_patterns = <<>>
    /\ filter_patterns = <<>>
    /\ k = 0
    /\ tested = {}
    /\ processed = <<>>
    /\ outputs = NoOutputs

HarvestInit ==
    /\ hpc = "extract"
    /\ since_ago \in parse_since
    /\ results = <<>>
    /\ last_page = NoPageSeen
    /\ n_pages = 0
    /\ extracted = <<>>
    /\ candidates = <<>>
    /\ freshness = <<>>
    /\ several_dates = FALSE
    /\ exclude_patterns = <<>>
    /\ filter_patterns = <<>>
    /\ k = 0
    /\ tested = {}
    /\ processed = <<>>
    /\ outputs = NoOutputs

\* extract_urls(), lines 75-95: one pass of `for page in tree.all_pages()`.
ExaminePage ==
    /\ hpc = "extract"
    /\ n_pages < MaxPages
    /\ \E page \in SitemapPages :
          /\ last_page' = page
          /\ results' = IF IsFresh(Lastmod(page), since_ago)
                        THEN Append(results, <<Lastmod(page), page.url>>)
                        ELSE results
    /\ n_pages' = n_pages + 1
    /\ UNCHANGED <<hpc, since_ago, extracted, candidates, freshness, several_dates, exclude_patterns,
                   filter_patterns, k, tested, processed, outputs>>
    /\ UNCHANGED dvars
    /\ UNCHANGED tvars

\* extract_urls(), lines 97-100, and main(), line 125: the tree is
\* exhausted, the sorted URLs are returned, main() builds the candidate set.
ExtractReturn ==
    /\ hpc = "extract"
    /\ LET sorted == SortNewestFirst(results)
           returned == [n \in 1..Len(sorted) |-> sorted[n][2]]
       IN  /\ extracted' = returned
           /\ freshness' = [n \in 1..Len(sorted) |-> Instant(sorted[n][1])]
           /\ candidates' = Candidates(returned)
    /\ several_dates' = \E a, b \in 1..Len(results) :
                            results[a][2] = results[b][2] /\ results[a][1] # results[b][1]
    /\ results' = <<>>
    /\ last_page' = NoPageSeen
    /\ hpc' = "patterns"
    /\ UNCHANGED <<since_ago, n_pages, exclude_patterns, filter_patterns, k, tested,
                   processed, outputs>>
    /\ UNCHANGED dvars
    /\ UNCHANGED tvars

\* main(), lines 127-130: the pattern lists of the two arguments.
ReadPatterns ==
    /\ hpc = "patterns"
    /\ \E ex \in SeqsUpTo(ExcludeLines, MaxPatterns),
          fl \in SeqsUpTo(FilterLines, MaxPatterns) :
          /\ exclude_patterns' = StrippedLines(ex)
          /\ filter_patterns' = StrippedLines(fl)
    /\ k' = 1
    /\ hpc' = "filter"
    /\ UNCHANGED <<since_ago, results, last_page, n_pages, extracted, candidates,
                   freshness, several_dates,
                   tested, processed, outputs>>
    /\ UNCHANGED dvars
    /\ UNCHANGED tvars

\* main(), lines 131-139: one pass of `for url in sorted(candidates)`.
FilterUrl ==
    /\ hpc = "filter"
    /\ k <= Len(candidates)
    /\ LET url == SortedList(candidates)[k]
           v == Verdict(url, exclude_patterns, filter_patterns)
       IN  /\ tested' = IF v.tested THEN tested \cup {url} ELSE tested
           /\ processed' = IF v.keep THEN Append(processed, url) ELSE processed
    /\ k' = k + 1
    /\ UNCHANGED <<hpc, since_ago, results, last_page, n_pages, extracted, candidates,
                   freshness, several_dates,
                   exclude_patterns, filter_patterns, outputs>>
    /\ UNCHANGED dvars
    /\ UNCHANGED tvars

\* main(), lines 141-143: the two outputs.
WriteOutputs ==
    /\ hpc = "filter"
    /\ k > Len(candidates)
    /\ outputs' = [latest_urls |-> SortedList(candidates), processed_urls |-> processed]
    /\ hpc' = "done"
    /\ UNCHANGED <<since_ago, results, last_page, n_pages, extracted, candidates,
                   freshness, several_dates,
                   exclude_patterns, filter_patterns, k, tested, processed>>
    /\ UNCHANGED dvars
    /\ UNCHANGED tvars

(***************************************************************************)
(* post_urls.py: build_crosspost_cmd, the {tags} placeholder.              *)
(***************************************************************************)

\* The contents of the article:tag metas of a page, as extract_og_tags
\* returns them (no empty string), each a sequence of characters.
TagInputs ==
    {<<"G", "o">>, <<"g", "o", "!">>, <<"g", "-", "o">>, <<"!">>,
     <<"1", " ", "g">>, <<"!", "-">>}

\* Message templates as sequences of pieces: a character, or a placeholder.
TagTemplates ==
    {<<"{url}", " ", "{tags}">>, <<"{tags}">>, <<"{tags}", "!", "{ tags }">>}

\* The characters of [0-9a-zA-Z] among those of the inputs.
IsAlnum(c) == c \in {"1", "G", "a", "b", "g", "o"}

\* re.sub("[^0-9a-zA-Z]+", "", t) of a tag, with every character kept: a
\* normalisation that strips nothing.
normalize_tag_keeping_all(t) == t

\* re.sub("[^0-9a-zA-Z]+", "", t)
normalize_tag(t) == SelectSeq(t, IsAlnum)

\* " ".join(list)
RECURSIVE Join(_)
Join(list) ==
    IF list = <<>> THEN <<>>
    ELSE IF Len(list) = 1 THEN list[1]
    ELSE list[1] \o <<" ">> \o Join(Tail(list))

\* re.sub(r"\{ *tags *\}", repl, message): every {tags} placeholder, with
\* or without blanks inside the braces, gives way to repl.
RECURSIVE SubTags(_, _)
SubTags(pieces, repl) ==
    IF pieces = <<>> THEN <<>>
    ELSE (IF Head(pieces) \in {"{tags}", "{ tags }"} THEN repl ELSE <<Head(pieces)>>)
         \o SubTags(Tail(pieces), repl)

\* build_crosspost_cmd, lines 222-223: the hashtags of a non-empty tag set.
Hashtags(tags) ==
    LET normalized_tags == {normalize_tag(t) : t \in tags}
    IN  Join(SortedList(AsList({<<"#">> \o t : t \in normalized_tags \ {<<>>}})))

TagsIdle ==
    /\ tpc = "idle"
    /\ template = <<>>
    /\ og_tags = {}
    /\ hashtags = <<>>
    /\ tagged_message = <<>>

\* build_crosspost_cmd has called extract_og_tags (line 219).
TagsInit ==
    /\ tpc = "fetched"
    /\ template \in TagTemplates
    /\ og_tags \in SUBSET TagInputs
    /\ hashtags = <<>>
    /\ tagged_message = <<>>

\* build_crosspost_cmd, lines 220-226.
FormatTags ==
    /\ tpc = "fetched"
    /\ IF og_tags # {}
       THEN /\ hashtags' = Hashtags(og_tags)
            /\ tagged_message' = SubTags(template, hashtags')
       ELSE /\ hashtags' = hashtags
            /\ tagged_message' = SubTags(template, <<>>)
    /\ tpc' = "done"
    /\ UNCHANGED <<template, og_tags>>
    /\ UNCHANGED <<dvars, hvars>>

(***************************************************************************)
(* The specifications: a run of post_urls.py, a run of get_urls.py, the    *)
(* formatting of one message by build_crosspost_cmd.                       *)
(***************************************************************************)
DispatchIdle ==
    /\ args = [urls |-> <<>>, limit |-> 0, failure_strategy |-> "ignore",
               dry_run |-> FALSE, message |-> {}]
    /\ env = [LIMIT |-> 0, FAILURE_STRATEGY |-> "ignore", credentials |-> {},
              WEBMENTION_ENDPOINT |-> "", WEBMENTION_TARGET_HOSTS |-> <<>>,
              WEBMENTION_SCAN_CONTENT |-> FALSE]
    /\ pc = "idle"
    /\ urls = <<>>
    /\ social_networks_enabled = FALSE
    /\ webmentions_enabled = FALSE
    /\ i = 0
    /\ j = 0
    /\ links = <<>>
    /\ cache = <<>>
    /\ requests = {}
    /\ last_requests = <<>>
    /\ runs = {}
    /\ posts = {}
    /\ last_post = NoPost
    /\ simulated = {}
    /\ failed = {}
    /\ event = "init"
    /\ exit_code = 0

Init == DispatchInit /\ HarvestIdle /\ TagsIdle

Next ==
    \/ Configure
    \/ Crosspost
    \/ WebmentionStatic
    \/ ScanContent
    \/ SendLink

Spec == Init /\ [][Next]_vars

InitHarvest == HarvestInit /\ DispatchIdle /\ TagsIdle

NextHarvest ==
    \/ ExaminePage
    \/ ExtractReturn
    \/ ReadPatterns
    \/ FilterUrl
    \/ WriteOutputs

SpecHarvest == InitHarvest /\ [][NextHarvest]_vars

InitTags == TagsInit /\ DispatchIdle /\ HarvestIdle

NextTags == FormatTags

SpecTags == InitTags /\ [][NextTags]_vars


(***************************************************************************)
(* Properties of post_urls.py.                                             *)
(***************************************************************************)
Hosts == env.WEBMENTION_TARGET_HOSTS

\* No crosspost channel has its complete credential set.
NoChannelActive == ChannelFlags(env.credentials) = <<>>

\* No webmention configuration: no static target host, scanning disabled.
NoWebmentionConfigured == Len(Hosts) = 0 /\ ~env.WEBMENTION_SCAN_CONTENT

\* The run has ended with a non-zero exit status.
Aborted == pc = "exit" /\ exit_code # 0

\* C1: with no crosspost channel active and no webmention configuration the
\* run aborts with a non-zero exit before any URL is processed: past the
\* configuration step the process has exited with a non-zero status without
\* entering the URL loop, the backend was never invoked, no webmention sent.
C1_AbortsWhenNothingConfigured ==
    (NoChannelActive /\ NoWebmentionConfigured /\ pc # "start")
        => (Aborted /\ i = 0 /\ runs = {} /\ posts = {})

\* The user selected the failure strategy `error`.
ErrorStrategy == args.failure_strategy = "error" /\ env.FAILURE_STRATEGY = "error"

\* The user selected the failure strategy `ignore`.
IgnoreStrategy == args.failure_strategy = "ignore" /\ env.FAILURE_STRATEGY = "ignore"

\* C2: under the failure strategy `error` the first failed crosspost
\* delivery (the backend exits non-zero) aborts the run with a non-zero exit
\* status: the step in which the delivery fails ends the process, and no
\* webmention stage or later URL follows.
C2_ErrorStrategyAborts ==
    (ErrorStrategy /\ event = "crosspost_failed") => Aborted

\* The ways a webmention delivery fails: a non-success status, an exception
\* of the transport, a target or source that cannot be fetched.
WebmentionFailures ==
    {"wm_failed", "wm_transport_error", "wm_discovery_error", "wm_source_unfetchable"}

\* C3: a webmention delivery failure never aborts the run: the step in which
\* a webmention fails, by status or by transport error, in static mode (with
\* or without an endpoint override) or in dynamic mode, does not end the
\* process with a non-zero exit status.
C3_WebmentionFailureNeverAborts ==
    event \in WebmentionFailures => ~Aborted

\* C4: under the failure strategy `ignore` a failed crosspost delivery is
\* logged and the run goes on to its end: when the process has terminated
\* after such a failure, it went through every URL of the list and its exit
\* status is 0.
C4_IgnoreStrategyCompletes ==
    (IgnoreStrategy /\ failed # {} /\ pc = "exit")
        => (exit_code = 0 /\ i = Len(urls))

\* C5: with no crosspost channel active the posting backend is never
\* invoked, whatever the webmention configuration.
C5_NoChannelNoBackend ==
    NoChannelActive => runs = {}

\* The crosspost stage of the n-th URL is over.
CrosspostOver(n) == n < i \/ (n = i /\ pc \in {"static", "dynamic", "link", "exit"})

\* The static-target stage of the n-th URL is over.
StaticOver(n) == n < i \/ (n = i /\ pc \in {"dynamic", "link", "exit"})

\* The dynamic stage of the n-th URL has gone through its first m links.
LinkOver(n, m) == n = i /\ pc = "link" /\ m < j

\* C6: in a dry run no delivery is performed: the backend is not invoked and
\* no webmention POST is issued, and each delivery whose turn has passed was
\* logged as a simulation (the crosspost of every URL, the webmention to
\* every static target and to every external link gone through).
C6_DryRunDeliversNothing ==
    args.dry_run =>
        /\ runs = {}
        /\ posts = {}
        /\ last_post = NoPost
        /\ \A n \in 1..Len(urls) :
              /\ CrosspostOver(n) =>
                    [kind |-> "crosspost", source |-> urls[n], target |-> ""]
                        \in simulated
              /\ StaticOver(n) =>
                    \A h \in 1..Len(Hosts) :
                        [kind |-> "webmention", source |-> urls[n], target |-> Hosts[h]]
                            \in simulated
              /\ \A m \in 1..Len(links) :
                    LinkOver(n, m) =>
                        [kind |-> "webmention", source |-> urls[n], target |-> links[m]]
                            \in simulated

\* A dry run over two URLs with a static target and content scanning has
\* ended: the crossposts, the webmention to the static target and the one to
\* an external link found by the scan were simulated.
C6_Witness ==
    /\ args.dry_run
    /\ pc = "exit"
    /\ Len(urls) = 2
    /\ Hosts = <<TargetNames[1]>>
    /\ [kind |-> "crosspost", source |-> urls[2], target |-> ""] \in simulated
    /\ [kind |-> "webmention", source |-> urls[2], target |-> TargetNames[1]]
          \in simulated
    /\ [kind |-> "webmention", source |-> urls[1], target |-> TargetNames[2]]
          \in simulated

(***************************************************************************)
(* Properties of get_urls.py.                                              *)
(***************************************************************************)

\* A pass of the loop of extract_urls() has examined a page.
Examined == hpc = "extract" /\ n_pages' = n_pages + 1

\* The pass appended the page it examined to results.
Kept == results' = Append(results, <<Lastmod(last_page'), last_page'.url>>)

\* The freshness of a page is date-only: a date with the time 00:00:00.
DateOnly(page) == Lastmod(page) # None /\ Lastmod(page).time = 0

\* C7: an item whose freshness is date-only is kept by the time filter if
\* and only if its calendar date is strictly after the cutoff's calendar
\* date (an item dated the cutoff's date is dropped), and an item that is
\* not kept leaves the results as they were.
C7_DateOnlyStrictlyAfter ==
    [][(Examined /\ DateOnly(last_page'))
          => /\ Kept <=> Lastmod(last_page').date > since_ago.date
             /\ ~Kept => results' = results]_vars

\* A date-only page dated the cutoff's date was examined and dropped.
C7_Witness ==
    /\ hpc = "extract"
    /\ n_pages = 1
    /\ DateOnly(last_page)
    /\ Lastmod(last_page).date = since_ago.date
    /\ results = <<>>

\* How often x occurs in a list.
Occurrences(list, x) == Cardinality({n \in 1..Len(list) : list[n] = x})

\* The URL passes the exclude globs and the include substrings.
Passes(url) ==
    /\ ~\E n \in 1..Len(exclude_patterns) : fnmatch(url, exclude_patterns[n])
    /\ \/ filter_patterns = <<>>
       \/ \E n \in 1..Len(filter_patterns) : Contains(url, filter_patterns[n])

\* C8: every URL the harvest yielded (once or several times) is exactly once
\* in the candidate list and, if it passes the filters, exactly once in the
\* processed list; no URL is twice in either list, at any point of the run.
C8_Deduplicated ==
    /\ \A u \in HUrls :
          /\ Occurrences(candidates, u) <= 1
          /\ Occurrences(processed, u) <= 1
          /\ Occurrences(outputs.latest_urls, u) <= 1
          /\ Occurrences(outputs.processed_urls, u) <= 1
    /\ hpc = "done" =>
          \A u \in SetOf(extracted) :
              /\ Occurrences(outputs.latest_urls, u) = 1
              /\ Passes(u) => Occurrences(outputs.processed_urls, u) = 1

\* The harvest kept one URL under two different freshness values, and the
\* URL went through the filters to the processed list.
C8_Witness ==
    /\ hpc = "done"
    /\ several_dates
    /\ \E u \in SetOf(extracted) :
          /\ Occurrences(extracted, u) >= 2
          /\ Occurrences(outputs.processed_urls, u) = 1
          /\ Occurrences(outputs.latest_urls, u) = 1

\* C9: a candidate URL that matches an exclude glob is not in the processed
\* list, also when it matches an include substring, and the inclusion test
\* is never applied to it.
C9_ExclusionFirst ==
    \A u \in SetOf(candidates) :
        (\E n \in 1..Len(exclude_patterns) : fnmatch(u, exclude_patterns[n]))
            => /\ u \notin SetOf(processed)
               /\ u \notin SetOf(outputs.processed_urls)
               /\ u \notin tested

\* A URL matching both an exclude glob and an include substring went through
\* the loop, beside a URL that was processed.
C9_Witness ==
    /\ hpc = "done"
    /\ outputs.processed_urls # <<>>
    /\ \E u \in SetOf(candidates) :
          /\ \E n \in 1..Len(exclude_patterns) : fnmatch(u, exclude_patterns[n])
          /\ \E n \in 1..Len(filter_patterns) : Contains(u, filter_patterns[n])

\* The list is in strictly ascending code-point order.
Ascending(list) == \A a, b \in 1..Len(list) : a < b => LexLess(list[a], list[b])

\* The elements of a list that pass the filters, in the order of the list.
RECURSIVE Passing(_)
Passing(list) ==
    IF list = <<>> THEN <<>>
    ELSE (IF Passes(Head(list)) THEN <<Head(list)>> ELSE <<>>) \o Passing(Tail(list))

\* C10: the processed list is exactly the candidates that match no exclude
\* glob and match an include substring (every one if there is no include
\* filter), in lexicographic order: the sub-list of the lexicographically
\* sorted candidate list made of the URLs that pass.
C10_ProcessedIsFilteredCandidates ==
    hpc = "done" =>
        /\ SetOf(outputs.latest_urls) = SetOf(extracted)
        /\ Ascending(outputs.latest_urls)
        /\ Ascending(outputs.processed_urls)
        /\ outputs.processed_urls = Passing(outputs.latest_urls)
        /\ filter_patterns = <<>> =>
              \A u \in SetOf(extracted) :
                  u \in SetOf(outputs.processed_urls)
                      <=> ~\E n \in 1..Len(exclude_patterns) :
                              fnmatch(u, exclude_patterns[n])

\* Three candidates went through an exclude glob and the empty include set:
\* one was dropped, two were processed.
C10_Witness ==
    /\ hpc = "done"
    /\ Len(outputs.latest_urls) = 3
    /\ Len(outputs.processed_urls) = 2
    /\ exclude_patterns # <<>>
    /\ filter_patterns = <<>>

(***************************************************************************)
(* Properties of post_urls.py: webmention reports, the fetch cache.        *)
(***************************************************************************)

\* A requests.post has returned with a response.
Answered == last_post # NoPost /\ ~last_post.raised

\* C11: a webmention POST is reported as a success if and only if the
\* status of the response is in the 2xx range.
C11_SuccessIff2xx ==
    Answered => (last_post.success <=> last_post.status_code \in 200..299)

\* C12: within one run the same page URL is requested from the network at
\* most once: no request of a step goes to a URL that a request was sent
\* for before.
C12_RequestedAtMostOnce ==
    \A n \in 1..Len(last_requests) : ~last_requests[n].again

(***************************************************************************)
(* Properties of get_urls.py: the order of the lists handed on.            *)
(***************************************************************************)

\* The freshest last-modified instant the harvest kept for a URL.
Freshest(url) ==
    LET at == {n \in 1..Len(extracted) : extracted[n] = url}
    IN  freshness[CHOOSE n \in at : \A m \in at : freshness[n] >= freshness[m]]

\* A list of harvested URLs runs from the freshest to the oldest.
FreshestFirst(list) ==
    \A a, b \in 1..Len(list) : a < b => Freshest(list[a]) >= Freshest(list[b])

\* C13: the URL list the harvester hands to the dispatch stage (the output
\* processed-urls, and latest-urls with it) is ordered from the freshest to
\* the oldest last-modified value.
C13_FreshnessOrdered ==
    hpc = "done" => /\ FreshestFirst(outputs.processed_urls)
                    /\ FreshestFirst(outputs.latest_urls)

(***************************************************************************)
(* Properties of post_urls.py: the hashtags of a message.                  *)
(***************************************************************************)

\* The text cut at every blank: the words a single blank separates.
RECURSIVE Words(_)
Words(text) ==
    IF \A n \in 1..Len(text) : text[n] # " " THEN <<text>>
    ELSE LET at == CHOOSE n \in 1..Len(text) :
                       text[n] = " " /\ \A m \in 1..(n - 1) : text[m] # " "
         IN  <<SubSeq(text, 1, at - 1)>> \o Words(SubSeq(text, at + 1, Len(text)))

\* The tag without its non-alphanumeric characters.
Stripped(t) == SelectSeq(t, LAMBDA c : c \in {"1", "G", "g", "o"})

\* The hashtags the fetched tags call for: '#' and the stripped tag, for
\* every tag that does not become empty.
WantedHashtags == {<<"#">> \o Stripped(t) : t \in {x \in og_tags : Stripped(x) # <<>>}}

\* The pieces of the template with each {tags} placeholder taken out and
\* the text put in its place.
RECURSIVE WithTags(_, _)
WithTags(pieces, text) ==
    IF pieces = <<>> THEN <<>>
    ELSE IF Head(pieces) \in {"{tags}", "{ tags }"}
    THEN text \o WithTags(Tail(pieces), text)
    ELSE <<Head(pieces)>> \o WithTags(Tail(pieces), text)

\* C14: the hashtags of a formatted message are the fetched tags stripped of
\* their non-alphanumeric characters and prefixed with '#', one hashtag for
\* tags that become equal, none for a tag that becomes empty, in sorted
\* order and joined by single blanks; they stand where the {tags}
\* placeholder stood. The tags "Go" and "go!" give "#Go #go".
C14_HashtagFormatting ==
    tpc = "done" =>
        /\ IF WantedHashtags = {} THEN hashtags = <<>>
           ELSE LET words == Words(hashtags)
                IN  /\ SetOf(words) = WantedHashtags
                    /\ Len(words) = Cardinality(WantedHashtags)
                    /\ \A n \in 1..(Len(words) - 1) : LexLess(words[n], words[n + 1])
        /\ tagged_message = WithTags(template, hashtags)
        /\ og_tags = {<<"G", "o">>, <<"g", "o", "!">>}
              => hashtags = <<"#", "G", "o", " ", "#", "g", "o">>

\* Four tags were formatted: two become "go", one becomes empty; the
\* message holds "#Go #go" after its URL.
C14_Witness ==
    /\ tpc = "done"
    /\ og_tags = {<<"G", "o">>, <<"g", "o", "!">>, <<"g", "-", "o">>, <<"!">>}
    /\ hashtags = <<"#", "G", "o", " ", "#", "g", "o">>
    /\ tagged_message = <<"{url}", " ", "#", "G", "o", " ", "#", "g", "o">>

(***************************************************************************)
(* Properties of get_urls.py: exact timestamps.                            *)
(***************************************************************************)

\* The freshness of a page is an exact timestamp: it shows a time of day
\* other than 00:00:00, or it states a UTC offset of its own (a plain date
\* states none).
Exact(page) ==
    /\ Lastmod(page) # None
    /\ Lastmod(page).time # 0 \/ Lastmod(page).utcoffset # 0

\* C15: an exact timestamp, whatever its UTC offset and also when its own
\* clock shows 00:00:00, is kept if and only if the instant it denotes is
\* strictly after the instant of the cutoff.
C15_ExactByInstant ==
    [][(Examined /\ Exact(last_page'))
          => (Kept <=> Instant(Lastmod(last_page')) > Instant(since_ago))]_vars

(***************************************************************************)
(* Properties of post_urls.py: fetches, stages, the limit.                 *)
(***************************************************************************)

\* The URLs of the input list.
InputUrls == {args.urls[n] : n \in 1..Len(args.urls)}

\* C16: deciding which channels are active performs no network fetch: when
\* the configuration step is over (the guard has passed, or has aborted the
\* run) no page has been requested, and every page requested in a run is a
\* URL of the input list or a webmention target.
C16_ResolutionFetchesNothing ==
    /\ event \in {"configured", "no_channels"} => requests = {}
    /\ requests \subseteq InputUrls \cup Targets

\* The static-target stage of the n-th URL has run to its end.
StaticDone(n) == Len(Hosts) > 0 /\ (n < i \/ (n = i /\ pc \in {"dynamic", "link"}))

\* The read-only fetches of the webmention stages, as a run that delivers
\* performs them: the source has been requested when its static targets
\* were notified, and every link the dynamic stage has gone through has
\* been requested for the discovery of its endpoint.
ReadOnlyFetchesDone ==
    /\ \A n \in 1..Len(urls) : StaticDone(n) => urls[n] \in requests
    /\ \A m \in 1..Len(links) : LinkOver(i, m) => links[m] \in requests

\* C17: a dry run performs the read-only fetches of a run that delivers:
\* the source fetch of the static stage and the endpoint discovery of the
\* targets also happen when the deliveries are only simulated.
C17_DryRunFetchesAsRealRun ==
    args.dry_run => ReadOnlyFetchesDone

\* The stages of one URL follow each other in the order crosspost, static
\* targets, dynamic scan (with its links), and the next URL of the list
\* starts only from the last stage of the one before.
StageOrder ==
    /\ pc = "start" => (pc' \in {"crosspost", "exit"} /\ i' \in {0, 1})
    /\ pc = "crosspost" => (pc' \in {"static", "exit"} /\ i' = i)
    /\ pc = "static" => (pc' \in {"static", "dynamic", "exit"} /\ i' = i)
    /\ pc \in {"dynamic", "link"} =>
          \/ pc' \in {"link", "exit"} /\ i' = i
          \/ pc' = "crosspost" /\ i' = i + 1
    /\ pc = "exit" => UNCHANGED <<pc, i>>

\* The ways a stage fails: the backend exits non-zero, a webmention is not
\* delivered, the source cannot be scanned.
StageFailures == {"crosspost_failed", "scan_error"} \cup WebmentionFailures

\* The step is the abort of a failed crosspost under the error policy.
ErrorPolicyAbort ==
    /\ event' = "crosspost_failed"
    /\ args.failure_strategy = "error" \/ env.FAILURE_STRATEGY \in {"error", "fail"}

\* C18: URLs are dispatched one at a time in input order, each through the
\* stages crosspost, static webmention, dynamic webmention in that order,
\* and a stage that fails does not end the run before the later stages of
\* the URL (but for the abort of a crosspost under the error policy).
C18_StagesInOrder ==
    [][/\ StageOrder
       /\ (event' \in StageFailures /\ ~ErrorPolicyAbort)
             => ~(pc' = "exit" /\ exit_code' # 0)]_vars

\* The URLs a stage has acted for: a command run or simulated for them, a
\* webmention posted or simulated with them as the source.
Dispatched ==
    {r.url : r \in runs} \cup {q.source : q \in posts} \cup {x.source : x \in simulated}

\* C19: with a delivery limit N > 0 passed by the user, at most N URLs are
\* dispatched and they are the first N of the input list: the loop never
\* goes beyond the N-th URL, and no URL after the N-th gets a crosspost or
\* a webmention.
C19_LimitBoundsDispatch ==
    args.limit > 0 =>
        /\ i <= args.limit
        /\ Dispatched \subseteq {args.urls[n] : n \in 1..Len(args.urls) \cap 1..args.limit}

====
